---------------------------- MODULE Spec2Model ----------------------------
(***************************************************************************)
(* A model of the toy JSON parser (class JSONParser): parse = lex followed *)
(* by parseTokens.  The lexer loop, the lexString loop and the recursive   *)
(* descent of parseTokens / parseObject / parseArray are taken step by     *)
(* step; the recursion is an explicit stack of parseObject / parseArray    *)
(* activations.                                                            *)
(*                                                                         *)
(* A text is a sequence of one-character strings ([...blob]).  A           *)
(* JavaScript value is a record tagged with its kind: a string holds its   *)
(* characters, a boolean its truth value, an array its elements, an object *)
(* its own properties in property order.                                   *)
(***************************************************************************)
EXTENDS Integers, Sequences, FiniteSets, TLC

VARIABLES
    input,    \* the text handed to parse
    pc,       \* where the call is: lex, lexString, parseTokens, parseObject,
              \* parseArray, return, done, error
    chars,    \* lex: the characters not yet consumed
    tokens,   \* lex: the tokens produced so far
    c,        \* lexString: its copy of the characters
    length,   \* lexString: the number of source characters taken
    str,      \* lexString: the decoded string
    stack,    \* the parseObject / parseArray activations, innermost last
    args,     \* the tokens handed to the parseTokens call being made
    ret,      \* the [remaining tokens, value] pair being returned
    result,   \* what parse returned
    err       \* the error parse raised

vars == <<input, pc, chars, tokens, c, length, str, stack, args, ret, result, err>>

---------------------------------------------------------------------------
(* Characters and constant tables *)

BEGIN_ARRAY     == "["
BEGIN_OBJECT    == "{"
END_ARRAY       == "]"
END_OBJECT      == "}"
NAME_SEPARATOR  == ":"
VALUE_SEPARATOR == ","

SYNTAX_TOKENS ==
    {BEGIN_ARRAY, BEGIN_OBJECT, END_ARRAY, END_OBJECT, NAME_SEPARATOR, VALUE_SEPARATOR}

QUOTATION_MARK == "\""
BACKSLASH == "\\"

SPACE   == " "
TAB     == "\t"
NEWLINE == "\n"

WhitespaceWithCarriageReturn == {SPACE, TAB, NEWLINE, "\r"}

WHITESPACE_TOKENS == {SPACE, TAB, NEWLINE}

\* What `str += undefined` appends.
UndefinedText == <<"u", "n", "d", "e", "f", "i", "n", "e", "d">>

---------------------------------------------------------------------------
(* JavaScript values and tokens *)

JSString(s)  == [kind |-> "String",  val |-> s]
JSBoolean(b) == [kind |-> "Boolean", val |-> b]
JSArray(xs)  == [kind |-> "Array",   val |-> xs]
JSObject(ms) == [kind |-> "Object",  val |-> ms]

NoValue == [kind |-> "None", val |-> <<>>]

Token(type, value) == [type |-> type, value |-> value]

\* A token's value compared with a one-character string by ===.
ValueIs(tok, ch) == tok.value = JSString(<<ch>>)

\* value.toString() of a string or a boolean
ValueToString(v) ==
    IF v.kind = "Boolean"
    THEN IF v.val THEN <<"t", "r", "u", "e">> ELSE <<"f", "a", "l", "s", "e">>
    ELSE v.val

\* chars.slice(from, to): the elements at 0-based positions from .. to-1.
Slice(s, from, to) ==
    SubSeq(s, from + 1, IF to < Len(s) THEN to ELSE Len(s))

\* chars.splice(0, n) and tokens.slice(n): what is left without the first n.
Drop(s, n) == SubSeq(s, n + 1, Len(s))

\* chars[i], 0-based; a character that equals nothing when i is out of range.
Undefined == "undefined"
At(s, i) == IF i < Len(s) THEN s[i + 1] ELSE Undefined

---------------------------------------------------------------------------
(* Bounds *)

\* How many times the lexString loop may run past the end of its characters.
MaxOverrun == 2

---------------------------------------------------------------------------
(* The lexer *)

\* A raised error unwinds the whole call: every local is gone, no value.
Throw(e) ==
    /\ pc' = "error"
    /\ err' = e
    /\ chars' = <<>>
    /\ tokens' = <<>>
    /\ c' = <<>>
    /\ length' = 0
    /\ str' = <<>>
    /\ stack' = <<>>
    /\ args' = <<>>
    /\ ret' = <<>>
    /\ result' = NoValue
    /\ UNCHANGED input

TrueText  == <<"t", "r", "u", "e">>
FalseText == <<"f", "a", "l", "s", "e">>

\* lexBoolean: the Boolean token, or thrown.
LexBoolean(chs) ==
    IF /\ Slice(chs, 0, 4) = TrueText
       /\ \/ At(chs, 4) = VALUE_SEPARATOR
          \/ At(chs, 4) = END_OBJECT
          \/ At(chs, 4) = END_ARRAY
          \/ At(chs, 5) \in WHITESPACE_TOKENS
    THEN [thrown |-> FALSE, token |-> Token("BOOLEAN", JSBoolean(TRUE))]
    ELSE IF /\ Slice(chs, 0, 5) = FalseText
            /\ \/ At(chs, 5) = VALUE_SEPARATOR
               \/ At(chs, 5) = END_OBJECT
               \/ At(chs, 5) = END_ARRAY
               \/ At(chs, 5) \in WHITESPACE_TOKENS
    THEN [thrown |-> FALSE, token |-> Token("BOOLEAN", JSBoolean(FALSE))]
    ELSE [thrown |-> TRUE, token |-> Token("BOOLEAN", JSBoolean(FALSE))]

\* One iteration of lexString's loop on its locals: brk when it breaks.
LexStringStepKeepsBackslash(cc, len, s) ==
    LET isQuote      == At(cc, 0) = QUOTATION_MARK
        isEscapeChar == At(cc, 0) = BACKSLASH
    IN  IF ~isQuote /\ ~isEscapeChar
        THEN [brk |-> FALSE, c |-> Drop(cc, 1), length |-> len + 1,
              str |-> s \o (IF cc = <<>> THEN UndefinedText ELSE <<cc[1]>>)]
        ELSE IF ~isEscapeChar
        THEN [brk |-> TRUE, c |-> cc, length |-> len, str |-> s]
        ELSE [brk |-> FALSE, c |-> Drop(cc, 2), length |-> len + 2,
              str |-> s \o <<BACKSLASH>>
                       \o (IF Len(cc) > 1 THEN <<cc[2]>> ELSE UndefinedText)]

LexStringStep(cc, len, s) ==
    LET isQuote      == At(cc, 0) = QUOTATION_MARK
        isEscapeChar == At(cc, 0) = BACKSLASH
    IN  IF ~isQuote /\ ~isEscapeChar
        THEN [brk |-> FALSE, c |-> Drop(cc, 1), length |-> len + 1,
              str |-> s \o (IF cc = <<>> THEN UndefinedText ELSE <<cc[1]>>)]
        ELSE IF ~isEscapeChar
        THEN [brk |-> TRUE, c |-> cc, length |-> len, str |-> s]
        ELSE [brk |-> FALSE, c |-> Drop(cc, 2), length |-> len + 2,
              str |-> s \o (IF Len(cc) > 1 THEN <<cc[2]>> ELSE UndefinedText)]

\* One iteration of lex's loop.
Lex ==
    /\ pc = "lex"
    /\ chars # <<>>
    /\ IF Head(chars) \in WHITESPACE_TOKENS
       THEN /\ chars' = Tail(chars)
            /\ UNCHANGED <<input, pc, tokens, c, length, str, stack, args, ret, result, err>>
       ELSE IF Head(chars) \in SYNTAX_TOKENS
       THEN /\ chars' = Tail(chars)
            /\ tokens' = Append(tokens, Token("SYNTAX", JSString(<<Head(chars)>>)))
            /\ UNCHANGED <<input, pc, c, length, str, stack, args, ret, result, err>>
       ELSE IF Head(chars) = QUOTATION_MARK
       THEN /\ chars' = Tail(chars)
            /\ pc' = "lexString"
            /\ c' = Tail(chars)
            /\ length' = 0
            /\ str' = <<>>
            /\ UNCHANGED <<input, tokens, stack, args, ret, result, err>>
       ELSE IF Head(chars) = "t" \/ Head(chars) = "f"
       THEN LET b == LexBoolean(chars)
            IN  IF b.thrown
                THEN Throw("lexer.boolean")
                ELSE /\ chars' = Drop(chars, Len(ValueToString(b.token.value)))
                     /\ tokens' = Append(tokens, b.token)
                     /\ UNCHANGED <<input, pc, c, length, str, stack, args, ret, result, err>>
       ELSE Throw("lexer")

\* One iteration of lexString's loop; on break, lex drops the characters and
\* the closing quote and pushes the token.
LexString ==
    /\ pc = "lexString"
    /\ (c = <<>>) => (length < Len(chars) + MaxOverrun)
    /\ LET r == LexStringStep(c, length, str)
       IN  IF r.brk
           THEN /\ chars' = Drop(chars, r.length + 1)
                /\ tokens' = Append(tokens, Token("STRING", JSString(r.str)))
                /\ pc' = "lex"
                /\ c' = <<>>
                /\ length' = 0
                /\ str' = <<>>
                /\ UNCHANGED <<input, stack, args, ret, result, err>>
           ELSE /\ c' = r.c
                /\ length' = r.length
                /\ str' = r.str
                /\ UNCHANGED <<input, pc, chars, tokens, stack, args, ret, result, err>>

\* lex returns its tokens and parse hands them to parseTokens.
LexReturn ==
    /\ pc = "lex"
    /\ chars = <<>>
    /\ pc' = "parseTokens"
    /\ args' = tokens
    /\ UNCHANGED <<input, chars, tokens, c, length, str, stack, ret, result, err>>

---------------------------------------------------------------------------
(* The parser *)

\* An activation of parseObject or parseArray: its output so far, its
\* remaining tokens t and, in parseObject, the key whose value is being parsed.
Frame(fn, t) == [fn |-> fn, output |-> <<>>, t |-> t, key |-> <<>>]

Top == stack[Len(stack)]

Pop == SubSeq(stack, 1, Len(stack) - 1)

SetTop(f) == [stack EXCEPT ![Len(stack)] = f]

Digits == {"0", "1", "2", "3", "4", "5", "6", "7", "8", "9"}

DigitValue(d) ==
    CASE d = "0" -> 0 [] d = "1" -> 1 [] d = "2" -> 2 [] d = "3" -> 3 [] d = "4" -> 4
      [] d = "5" -> 5 [] d = "6" -> 6 [] d = "7" -> 7 [] d = "8" -> 8 [] d = "9" -> 9

\* a < b for canonical decimals: the shorter, or the first differing digit.
IndexLess(a, b) ==
    \/ Len(a) < Len(b)
    \/ /\ Len(a) = Len(b)
       /\ \E i \in DOMAIN a :
             /\ DigitValue(a[i]) < DigitValue(b[i])
             /\ \A j \in 1..(i - 1) : a[j] = b[j]

\* 2^32 - 1 in decimal.
IndexLimit == <<"4", "2", "9", "4", "9", "6", "7", "2", "9", "5">>

\* A property key that is an array index: a canonical decimal below 2^32 - 1.
\* An object lists these first, in ascending order.
IsArrayIndex(k) ==
    /\ k # <<>>
    /\ \A i \in DOMAIN k : k[i] \in Digits
    /\ (Len(k) > 1) => (k[1] # "0")
    /\ IndexLess(k, IndexLimit)

ProtoKey == <<"_", "_", "p", "r", "o", "t", "o", "_", "_">>

\* output[key] = value on a plain object, as its own properties in property
\* order: an existing key keeps its place, a new array-index key goes among the
\* index keys, any other new key goes last.  __proto__ reaches the prototype
\* setter and makes no own property.
ObjSetMovesKeyLast(ms, k, v) ==
    IF k = ProtoKey THEN ms
    ELSE LET rest == SelectSeq(ms, LAMBDA m : m.key # k)
             n == Cardinality({i \in DOMAIN rest :
                     IsArrayIndex(rest[i].key) /\ IndexLess(rest[i].key, k)})
         IN  IF IsArrayIndex(k)
             THEN SubSeq(rest, 1, n) \o <<[key |-> k, value |-> v]>> \o SubSeq(rest, n + 1, Len(rest))
             ELSE Append(rest, [key |-> k, value |-> v])

ObjSet(ms, k, v) ==
    IF k = ProtoKey THEN ms
    ELSE IF \E i \in DOMAIN ms : ms[i].key = k
    THEN LET i == CHOOSE j \in DOMAIN ms : ms[j].key = k
         IN  [ms EXCEPT ![i] = [key |-> k, value |-> v]]
    ELSE IF IsArrayIndex(k)
    THEN LET n == Cardinality({i \in DOMAIN ms :
                     IsArrayIndex(ms[i].key) /\ IndexLess(ms[i].key, k)})
         IN  SubSeq(ms, 1, n) \o <<[key |-> k, value |-> v]>> \o SubSeq(ms, n + 1, Len(ms))
    ELSE Append(ms, [key |-> k, value |-> v])

\* Object.values(SYNTAX_TOKENS).includes(value)
IsSyntaxValue(v) == v.kind = "String" /\ \E ch \in SYNTAX_TOKENS : v.val = <<ch>>

\* parseTokens: dispatch on the first token's value.
ParseTokens ==
    /\ pc = "parseTokens"
    /\ IF args = <<>>
       THEN Throw("TypeError")
       ELSE IF ValueIs(args[1], BEGIN_OBJECT)
       THEN /\ stack' = Append(stack, Frame("parseObject", Drop(args, 1)))
            /\ pc' = "parseObject"
            /\ args' = <<>>
            /\ UNCHANGED <<input, chars, tokens, c, length, str, ret, result, err>>
       ELSE IF ValueIs(args[1], BEGIN_ARRAY)
       THEN /\ stack' = Append(stack, Frame("parseArray", Drop(args, 1)))
            /\ pc' = "parseArray"
            /\ args' = <<>>
            /\ UNCHANGED <<input, chars, tokens, c, length, str, ret, result, err>>
       ELSE /\ ret' = <<Drop(args, 1), args[1].value>>
            /\ pc' = "return"
            /\ args' = <<>>
            /\ UNCHANGED <<input, chars, tokens, c, length, str, stack, result, err>>

\* parseObject, from the head of its loop to its call of parseTokens.
ParseObject ==
    /\ pc = "parseObject"
    /\ LET t == Top.t
       IN  IF t = <<>>
           THEN Throw("TypeError")
           ELSE IF t[1].type # "STRING"
           THEN Throw("parser.object.missing")
           ELSE IF Len(t) < 2
           THEN Throw("TypeError")
           ELSE IF ~ValueIs(t[2], NAME_SEPARATOR)
           THEN Throw("parser.object.separator")
           ELSE /\ stack' = SetTop([Top EXCEPT !.key = ValueToString(t[1].value),
                                               !.t = Drop(t, 2)])
                /\ args' = Drop(t, 2)
                /\ pc' = "parseTokens"
                /\ UNCHANGED <<input, chars, tokens, c, length, str, ret, result, err>>

\* The separator and end tests both loops make after a value, on the tokens t
\* left after it: thrown, returned (with the tokens after the end), or looping.
AfterValueNoCommaCheck(t, end) ==
    IF t = <<>>
    THEN [next |-> "TypeError", t |-> t]
    ELSE LET u == IF ValueIs(t[1], VALUE_SEPARATOR) THEN Drop(t, 1) ELSE t
         IN  IF u = <<>>
             THEN [next |-> "TypeError", t |-> u]
             ELSE IF ValueIs(u[1], end)
             THEN [next |-> "return", t |-> Drop(u, 1)]
             ELSE [next |-> "loop", t |-> u]

\* AfterValue with the end token left in the tokens it returns.
AfterValueKeepsEnd(t, end) ==
    IF t = <<>>
    THEN [next |-> "TypeError", t |-> t]
    ELSE IF ValueIs(t[1], VALUE_SEPARATOR) /\ Len(t) < 2
    THEN [next |-> "TypeError", t |-> t]
    ELSE IF ValueIs(t[1], VALUE_SEPARATOR) /\ ValueIs(t[2], end)
    THEN [next |-> "trailing", t |-> t]
    ELSE LET u == IF ValueIs(t[1], VALUE_SEPARATOR) THEN Drop(t, 1) ELSE t
         IN  IF ValueIs(u[1], end)
             THEN [next |-> "return", t |-> u]
             ELSE [next |-> "loop", t |-> u]

AfterValue(t, end) ==
    IF t = <<>>
    THEN [next |-> "TypeError", t |-> t]
    ELSE IF ValueIs(t[1], VALUE_SEPARATOR) /\ Len(t) < 2
    THEN [next |-> "TypeError", t |-> t]
    ELSE IF ValueIs(t[1], VALUE_SEPARATOR) /\ ValueIs(t[2], end)
    THEN [next |-> "trailing", t |-> t]
    ELSE LET u == IF ValueIs(t[1], VALUE_SEPARATOR) THEN Drop(t, 1) ELSE t
         IN  IF ValueIs(u[1], end)
             THEN [next |-> "return", t |-> Drop(u, 1)]
             ELSE [next |-> "loop", t |-> u]

\* parseObject, from the return of parseTokens to the end of the iteration.
ObjectResume ==
    /\ pc = "return"
    /\ stack # <<>>
    /\ Top.fn = "parseObject"
    /\ LET output == ObjSet(Top.output, Top.key, ret[2])
           a == AfterValue(ret[1], END_OBJECT)
       IN  IF a.next = "TypeError"
           THEN Throw("TypeError")
           ELSE IF a.next = "trailing"
           THEN Throw("parser.object.trailing")
           ELSE IF a.next = "return"
           THEN /\ ret' = <<a.t, JSObject(output)>>
                /\ stack' = Pop
                /\ UNCHANGED <<input, pc, chars, tokens, c, length, str, args, result, err>>
           ELSE /\ stack' = SetTop([Top EXCEPT !.output = output, !.t = a.t, !.key = <<>>])
                /\ pc' = "parseObject"
                /\ ret' = <<>>
                /\ UNCHANGED <<input, chars, tokens, c, length, str, args, result, err>>

\* parseArray, at the head of its loop: the call of parseTokens.
ParseArray ==
    /\ pc = "parseArray"
    /\ args' = Top.t
    /\ pc' = "parseTokens"
    /\ UNCHANGED <<input, chars, tokens, c, length, str, stack, ret, result, err>>

\* parseArray, from the return of parseTokens to the end of the iteration.
ArrayResume ==
    /\ pc = "return"
    /\ stack # <<>>
    /\ Top.fn = "parseArray"
    /\ IF ret[2].kind # "Array" /\ IsSyntaxValue(ret[2])
       THEN Throw("parser.array.missing")
       ELSE IF ret[1] = <<>>
       THEN Throw("parser.array.missing")
       ELSE LET output == Append(Top.output, ret[2])
                a == AfterValue(ret[1], END_ARRAY)
            IN  IF a.next = "TypeError"
                THEN Throw("TypeError")
                ELSE IF a.next = "trailing"
                THEN Throw("parser.array.trailing")
                ELSE IF a.next = "return"
                THEN /\ ret' = <<a.t, JSArray(output)>>
                     /\ stack' = Pop
                     /\ UNCHANGED <<input, pc, chars, tokens, c, length, str, args, result, err>>
                ELSE /\ stack' = SetTop([Top EXCEPT !.output = output, !.t = a.t])
                     /\ pc' = "parseArray"
                     /\ ret' = <<>>
                     /\ UNCHANGED <<input, chars, tokens, c, length, str, args, result, err>>

\* parse returns the value of the outermost parseTokens call.
ParseReturn ==
    /\ pc = "return"
    /\ stack = <<>>
    /\ result' = ret[2]
    /\ pc' = "done"
    /\ ret' = <<>>
    /\ tokens' = <<>>
    /\ UNCHANGED <<input, chars, c, length, str, stack, args, err>>

Next ==
    \/ Lex
    \/ LexString
    \/ LexReturn
    \/ ParseTokens
    \/ ParseObject
    \/ ParseArray
    \/ ObjectResume
    \/ ArrayResume
    \/ ParseReturn

\* The state at the start of parse(text).
InitWith(texts) ==
    /\ input \in texts
    /\ pc = "lex"
    /\ chars = input
    /\ tokens = <<>>
    /\ c = <<>>
    /\ length = 0
    /\ str = <<>>
    /\ stack = <<>>
    /\ args = <<>>
    /\ ret = <<>>
    /\ result = NoValue
    /\ err = "none"

---------------------------------------------------------------------------
(* Texts *)

RECURSIVE Cat(_)
Cat(parts) == IF parts = <<>> THEN <<>> ELSE Head(parts) \o Cat(Tail(parts))

\* The sequences over alphabet of length at most n.
Words(alphabet, n) == UNION {[1..k -> alphabet] : k \in 0..n}

Q(s) == <<QUOTATION_MARK>> \o s \o <<QUOTATION_MARK>>

TextEmptyObject == <<"{", "}">>
TextEmptyArray == <<"[", "]">>
TextObject == Cat(<<<<"{">>, Q(<<"a">>), <<":">>, Q(<<"b">>), <<"}">>>>)
TextTrueFalse == Cat(<<<<"[">>, TrueText, <<",">>, FalseText, <<"]">>>>)
TextTrailingObject == Cat(<<<<"{">>, Q(<<"a">>), <<":">>, Q(<<"b">>), <<",", "}">>>>)
TextTrailingArray == Cat(<<<<"[">>, Q(<<"a">>), <<",", "]">>>>)
TextNumber == <<"[", "1", "]">>
TextNull == Cat(<<<<"{">>, Q(<<"a">>), <<":", "n", "u", "l", "l", "}">>>>)
TextEscapedQuote == Cat(<<<<"[">>, Q(<<"x", BACKSLASH, QUOTATION_MARK, "y">>), <<"]">>>>)
TextMissingEndObject == Cat(<<<<"{">>, Q(<<"a">>), <<":">>, Q(<<"b">>)>>)
TextMissingEndArray == Cat(<<<<"[">>, Q(<<"a">>)>>)
TextMissingAfterComma == Cat(<<<<"[">>, Q(<<"a">>), <<",">>>>)
TextDuplicate ==
    Cat(<<<<"{">>, Q(<<"a">>), <<":">>, Q(<<"1">>), <<",">>, Q(<<"b">>), <<":">>, Q(<<"2">>),
          <<",">>, Q(<<"a">>), <<":">>, Q(<<"3">>), <<"}">>>>)
TextIndexKey ==
    Cat(<<<<"{">>, Q(<<"b">>), <<":">>, Q(<<"x">>), <<",">>, Q(<<"1">>), <<":">>, Q(<<"y">>), <<"}">>>>)
TextStringBracket == Cat(<<<<"[">>, Q(<<"[">>), <<"]">>>>)
TextStringComma == Cat(<<<<"[">>, Q(<<",">>), <<"]">>>>)
TextStringBrace == Cat(<<<<"{">>, Q(<<"a">>), <<":">>, Q(<<"{">>), <<"}">>>>)
TextKeyBrace ==
    Cat(<<<<"{">>, Q(<<"a">>), <<":">>, Q(<<"b">>), <<",">>, Q(<<"}">>), <<":">>, Q(<<"c">>), <<"}">>>>)
TextCommaValue == Cat(<<<<"{">>, Q(<<"a">>), <<":", ",", "}">>>>)
TextColon == <<":">>
TextNoCommaArray == Cat(<<<<"[">>, Q(<<"a">>), <<" ">>, Q(<<"b">>), <<"]">>>>)
TextNoCommaObject ==
    Cat(<<<<"{">>, Q(<<"a">>), <<":">>, Q(<<"b">>), <<" ">>, Q(<<"c">>), <<":">>, Q(<<"d">>), <<"}">>>>)
TextTrueSpace == Cat(<<<<"[">>, TrueText, <<" ", "]">>>>)
TextNested ==
    Cat(<<<<"[", "{">>, Q(<<"a">>), <<":", "[">>, Q(<<"b">>), <<",">>, TrueText, <<"]", "}", "]">>>>)
TextUnterminatedString == <<QUOTATION_MARK, "a">>
TextBackslashAtEnd == <<QUOTATION_MARK, "a", BACKSLASH>>

\* The texts the documentation and the examples use.
Samples ==
    {TextEmptyObject, TextEmptyArray, TextObject, TextTrueFalse, TextTrailingObject,
     TextTrailingArray, TextNumber, TextNull, TextEscapedQuote, TextMissingEndObject,
     TextMissingEndArray, TextMissingAfterComma, TextDuplicate, TextIndexKey,
     TextStringBracket, TextStringComma, TextStringBrace, TextKeyBrace, TextCommaValue,
     TextColon, TextNoCommaArray, TextNoCommaObject, TextTrueSpace, TextNested,
     TextUnterminatedString, TextBackslashAtEnd}

\* Texts made of whole lexemes.
MaxTokens == 4

Lexemes ==
    {<<"[">>, <<"]">>, <<"{">>, <<"}">>, <<":">>, <<",">>, Q(<<"a">>), Q(<<"}">>), TrueText}

TokenTexts == {Cat(w) : w \in Words(Lexemes, MaxTokens)}

\* Flat containers of one or two members, written with commas.
RECURSIVE JoinComma(_)
JoinComma(parts) ==
    IF parts = <<>> THEN <<>>
    ELSE IF Len(parts) = 1 THEN parts[1]
    ELSE parts[1] \o <<",">> \o JoinComma(Tail(parts))

Leaves == {Q(<<"a">>), Q(<<"b">>), TrueText}

Member(k, v) == k \o <<":">> \o v

Members == {Member(Q(<<"a">>), v) : v \in Leaves} \cup {Member(Q(<<"b">>), v) : v \in Leaves}

OneOrTwo(S) == {<<x>> : x \in S} \cup {<<x, y>> : x \in S, y \in S}

ArrayBodies == {JoinComma(w) : w \in OneOrTwo(Leaves)}

ObjectBodies == {JoinComma(w) : w \in OneOrTwo(Members)}

\* ... with a comma before the closing bracket or brace.
TrailingArrays == {<<"[">> \o b \o <<",", "]">> : b \in ArrayBodies}

TrailingObjects == {<<"{">> \o b \o <<",", "}">> : b \in ObjectBodies}

\* ... ending before the closing bracket or brace, after a string member or
\* after the comma that follows it.
EndsWithString(b) == b[Len(b)] = QUOTATION_MARK

UnterminatedArrays ==
    {<<"[">> \o b : b \in {x \in ArrayBodies : EndsWithString(x)}}
    \cup {<<"[">> \o b \o <<",">> : b \in {x \in ArrayBodies : EndsWithString(x)}}

UnterminatedObjects ==
    {<<"{">> \o b : b \in {x \in ObjectBodies : EndsWithString(x)}}
    \cup {<<"{">> \o b \o <<",">> : b \in {x \in ObjectBodies : EndsWithString(x)}}

\* Texts without strings and literals, over characters the lexer knows and
\* characters it does not.
MaxInvalidLen == 3

InvalidAlphabet == {"[", "]", ",", " ", "1", "-", "n", "\r"}

InvalidTexts == Words(InvalidAlphabet, MaxInvalidLen)

\* Texts that open a string: a quotation mark and a body that may or may not
\* close it.
MaxBody == 5

BodyAlphabet == {QUOTATION_MARK, BACKSLASH, "n", ","}

StringTexts == {<<QUOTATION_MARK>> \o b : b \in Words(BodyAlphabet, MaxBody)}

\* Texts that start like a boolean literal, and what follows it.
MaxSuffix == 2

LiteralStarts == {TrueText, FalseText, <<"t", "r", "u">>, <<"f", "a", "l", "s">>}

SuffixAlphabet == {",", "}", "]", " ", "\t", "\n", "\r", ":", "e"}

BooleanTexts == {p \o w : p \in LiteralStarts, w \in Words(SuffixAlphabet, MaxSuffix)}

\* Objects of up to MaxMembers members whose keys may repeat, each with the
\* members it was written from.
MaxMembers == 3

DuplicateKeys == {<<"a">>, <<"b">>}

DuplicateValues == {<<"1">>, <<"2">>, <<"3">>}

MemberLists ==
    Words({[key |-> k, value |-> v] : k \in DuplicateKeys, v \in DuplicateValues}, MaxMembers)
        \ {<<>>}

ObjectText(ms) ==
    <<"{">> \o JoinComma([i \in DOMAIN ms |-> Member(Q(ms[i].key), Q(ms[i].value))]) \o <<"}">>

DuplicateDocs == {[text |-> ObjectText(ms), members |-> ms] : ms \in MemberLists}

\* Value trees of strings, booleans, arrays and objects, two levels deep and
\* two wide, and the text a JSON encoder (JSON.stringify) writes for each.
TreeLeaves == {JSString(<<"a">>), JSString(<<"\"">>), JSBoolean(TRUE)}

TreeKeys == {<<"a">>, <<"b">>}

Containers(S) ==
    {JSArray(<<>>), JSObject(<<>>)}
    \cup {JSArray(w) : w \in OneOrTwo(S)}
    \cup {JSObject(<<[key |-> k, value |-> x]>>) : k \in TreeKeys, x \in S}
    \cup {JSObject(<<[key |-> k[1], value |-> x], [key |-> k[2], value |-> y]>>) :
            k \in {<<<<"a">>, <<"b">>>>, <<<<"b">>, <<"a">>>>}, x \in S, y \in S}

Trees ==
    TreeLeaves \cup Containers(TreeLeaves) \cup Containers(TreeLeaves \cup Containers(TreeLeaves))

EncodeChar(ch) ==
    IF ch = "\"" THEN <<"\\", "\"">>
    ELSE IF ch = "\\" THEN <<"\\", "\\">>
    ELSE IF ch = "\n" THEN <<"\\", "n">>
    ELSE IF ch = "\t" THEN <<"\\", "t">>
    ELSE IF ch = "\r" THEN <<"\\", "r">>
    ELSE <<ch>>

EncodeString(s) == Q(Cat([i \in DOMAIN s |-> EncodeChar(s[i])]))

RECURSIVE Encode(_)
Encode(v) ==
    IF v.kind = "String" THEN EncodeString(v.val)
    ELSE IF v.kind = "Boolean" THEN (IF v.val THEN TrueText ELSE FalseText)
    ELSE IF v.kind = "Array"
    THEN <<"[">> \o JoinComma([i \in DOMAIN v.val |-> Encode(v.val[i])]) \o <<"]">>
    ELSE <<"{">>
         \o JoinComma([i \in DOMAIN v.val |->
                          Member(EncodeString(v.val[i].key), Encode(v.val[i].value))])
         \o <<"}">>

EncodedTrees == {[text |-> Encode(v), tree |-> v] : v \in Trees}

\* Arrays and objects of two or three members, written with a comma between
\* every two members (gap 0) or with white space in the place of one of the
\* commas (the gap-th), and the value the members make.
RECURSIVE JoinGap(_, _)
JoinGap(parts, gap) ==
    IF parts = <<>> THEN <<>>
    ELSE IF Len(parts) = 1 THEN parts[1]
    ELSE parts[1] \o (IF gap = 1 THEN <<SPACE>> ELSE <<VALUE_SEPARATOR>>)
                  \o JoinGap(Tail(parts), gap - 1)

TwoOrThree(S) == {<<x, y>> : x \in S, y \in S} \cup {<<x, y, z>> : x \in S, y \in S, z \in S}

CommaElements ==
    {JSString(<<"a">>), JSBoolean(FALSE), JSArray(<<JSString(<<"b">>)>>),
     JSObject(<<[key |-> <<"a">>, value |-> JSString(<<"b">>)]>>)}

CommaKeys == {<<"a">>, <<"b">>, <<VALUE_SEPARATOR>>}

CommaValues == {JSString(<<"1">>), JSBoolean(FALSE), JSArray(<<JSString(<<"b">>)>>)}

CommaMemberLists ==
    {ms \in TwoOrThree({[key |-> k, value |-> v] : k \in CommaKeys, v \in CommaValues}) :
        \A i \in DOMAIN ms : \A j \in DOMAIN ms : (i # j) => (ms[i].key # ms[j].key)}

Gaps(xs) == 0..(Len(xs) - 1)

ArrayDoc(xs, gap) ==
    [text |-> <<BEGIN_ARRAY>> \o JoinGap([i \in DOMAIN xs |-> Encode(xs[i])], gap)
                              \o <<END_ARRAY>>,
     value |-> JSArray(xs),
     gap |-> gap]

ObjectDoc(ms, gap) ==
    [text |-> <<BEGIN_OBJECT>>
              \o JoinGap([i \in DOMAIN ms |->
                            Member(EncodeString(ms[i].key), Encode(ms[i].value))], gap)
              \o <<END_OBJECT>>,
     value |-> JSObject(ms),
     gap |-> gap]

CommaDocs ==
    UNION {{ArrayDoc(xs, g) : g \in Gaps(xs)} : xs \in TwoOrThree(CommaElements)}
    \cup UNION {{ObjectDoc(ms, g) : g \in Gaps(ms)} : ms \in CommaMemberLists}

Init ==
    InitWith(Samples \cup TokenTexts \cup TrailingArrays \cup TrailingObjects
             \cup UnterminatedArrays \cup UnterminatedObjects
             \cup InvalidTexts \cup StringTexts \cup BooleanTexts
             \cup {d.text : d \in DuplicateDocs} \cup {e.text : e \in EncodedTrees}
             \cup {d.text : d \in CommaDocs})

Spec == Init /\ [][Next]_vars

---------------------------------------------------------------------------
(* Properties *)

Terminal == pc \in {"done", "error"}

\* C1: parse("{}") returns the empty Object and parse("[]") the empty Array,
\* and neither raises an error.
EmptyContainersAccepted ==
    /\ (input = TextEmptyObject) =>
          /\ pc # "error"
          /\ (pc = "done") => (result = JSObject(<<>>))
    /\ (input = TextEmptyArray) =>
          /\ pc # "error"
          /\ (pc = "done") => (result = JSArray(<<>>))

\* Equality of values: arrays in order, objects whatever the order of their keys.
RECURSIVE ValueEq(_, _)
ValueEq(a, b) ==
    /\ a.kind = b.kind
    /\ IF a.kind = "Array"
       THEN /\ Len(a.val) = Len(b.val)
            /\ \A i \in DOMAIN a.val : ValueEq(a.val[i], b.val[i])
       ELSE IF a.kind = "Object"
       THEN /\ {a.val[i].key : i \in DOMAIN a.val} = {b.val[i].key : i \in DOMAIN b.val}
            /\ Len(a.val) = Len(b.val)
            /\ \A i \in DOMAIN a.val : \A j \in DOMAIN b.val :
                  (a.val[i].key = b.val[j].key) => ValueEq(a.val[i].value, b.val[j].value)
       ELSE a.val = b.val

\* C2: a tree of objects, arrays, strings and booleans, written by a JSON
\* encoder and parsed back, comes out equal to the original: arrays in order,
\* objects whatever the order of their keys.
RoundTrip ==
    Terminal =>
        \A e \in EncodedTrees :
            (input = e.text) => (pc = "done" /\ ValueEq(result, e.tree))

\* The characters that may start a token or be skipped, as the lexer is described.
Recognised == {" ", "\t", "\n", "[", "{", "]", "}", ":", ",", "\"", "t", "f"}

LexErrorRaised ==
    /\ pc = "error"
    /\ err = "lexer"
    /\ result = NoValue
    /\ tokens = <<>>

HasUnrecognised(s) == \E i \in DOMAIN s : s[i] \notin Recognised

NoStringOrLiteral(s) == \A i \in DOMAIN s : s[i] \notin {"\"", "t", "f"}

UnrecognisedStep ==
    (pc = "lex" /\ chars # <<>> /\ Head(chars) \notin Recognised) => LexErrorRaised'

UnrecognisedOutcome ==
    /\ (NoStringOrLiteral(input) /\ HasUnrecognised(input)) =>
          \/ pc = "lex" /\ HasUnrecognised(chars)
          \/ LexErrorRaised
    /\ (input \in {TextNumber, TextNull}) =>
          \/ pc \in {"lex", "lexString"} /\ HasUnrecognised(chars)
          \/ LexErrorRaised

\* C3: outside a string, a first character that is not white space, not a
\* syntax character and not a quotation mark, t or f makes the call fail with
\* the lexer's invalid-character error: no value and no tokens come back.  So
\* a text without strings and literals that holds such a character never
\* reaches the parser, and neither do [1] and {"a":null}.
LexRejectsUnrecognised == [][UnrecognisedStep]_vars /\ []UnrecognisedOutcome

LexRejectsUnrecognisedWitness ==
    /\ input = TextNumber
    /\ LexErrorRaised

\* C4: when the tokens run out inside an object before its closing brace the
\* call fails with the missing end-object error, inside an array before its
\* closing bracket with the missing end-array error, and in no other way.
MissingEndError ==
    /\ (input \in UnterminatedObjects \cup {TextMissingEndObject}) =>
          /\ pc # "done"
          /\ (pc = "error") => (err = "parser.object.missing")
    /\ (input \in UnterminatedArrays \cup {TextMissingEndArray, TextMissingAfterComma}) =>
          /\ pc # "done"
          /\ (pc = "error") => (err = "parser.array.missing")

\* A comma right before the closing brace or bracket, and what becomes of it.
CommaToken == Token("SYNTAX", JSString(<<",">>))

\* A value parseArray takes as an element: anything but a bare syntax character.
IsElement(v) ==
    IF v.kind = "String"
    THEN v.val \notin {<<"[">>, <<"{">>, <<"]">>, <<"}">>, <<":">>, <<",">>}
    ELSE TRUE

TrailingCommaStep ==
    (/\ pc = "return"
     /\ stack # <<>>
     /\ Len(ret[1]) >= 2
     /\ ret[1][1] = CommaToken)
    => /\ (Top.fn = "parseObject" /\ ret[1][2] = Token("SYNTAX", JSString(<<"}">>)))
            => (pc' = "error" /\ err' = "parser.object.trailing" /\ result' = NoValue)
       /\ (/\ Top.fn = "parseArray"
           /\ IsElement(ret[2])
           /\ ret[1][2] = Token("SYNTAX", JSString(<<"]">>)))
            => (pc' = "error" /\ err' = "parser.array.trailing" /\ result' = NoValue)

TrailingCommaOutcome ==
    /\ (input \in TrailingObjects \cup {TextTrailingObject}) =>
          /\ pc # "done"
          /\ (pc = "error") => (err = "parser.object.trailing" /\ result = NoValue)
    /\ (input \in TrailingArrays \cup {TextTrailingArray}) =>
          /\ pc # "done"
          /\ (pc = "error") => (err = "parser.array.trailing" /\ result = NoValue)

Delimiters == {",", "}", "]", " ", "\t", "\n"}

Delimited(chs, literal) ==
    /\ Slice(chs, 0, Len(literal)) = literal
    /\ At(chs, Len(literal)) \in Delimiters

BooleanStep ==
    (pc = "lex" /\ chars # <<>> /\ Head(chars) \in {"t", "f"}) =>
        IF Delimited(chars, TrueText)
        THEN pc' = "lex" /\ tokens' = Append(tokens, Token("BOOLEAN", JSBoolean(TRUE)))
        ELSE IF Delimited(chars, FalseText)
        THEN pc' = "lex" /\ tokens' = Append(tokens, Token("BOOLEAN", JSBoolean(FALSE)))
        ELSE pc' = "error" /\ err' = "lexer.boolean"

\* C6: at a leading t or f the lexer emits a Boolean token exactly when the
\* next characters spell true (or false) and the character right after the
\* literal is ',', '}', ']', space, tab or line feed; otherwise it raises the
\* lexer's boolean error.  The rule is the same for both literals.
BooleanDelimiterRule == [][BooleanStep]_vars

\* The quotation marks of s no backslash escapes, and what s holds before the first.
RECURSIVE Escaped(_, _)
Escaped(s, i) == i > 1 /\ s[i - 1] = "\\" /\ ~Escaped(s, i - 1)

ClosingQuotes(s) == {i \in DOMAIN s : s[i] = "\"" /\ ~Escaped(s, i)}

ClosingQuote(s) == CHOOSE i \in ClosingQuotes(s) : \A j \in ClosingQuotes(s) : i <= j

\* The elements of s at the positions kept, in order.
Pick(s, kept) ==
    LET nth(j) == CHOOSE i \in kept : Cardinality({k \in kept : k < i}) = j - 1
    IN  [j \in 1..Cardinality(kept) |-> s[nth(j)]]

Decoded(s) == Pick(s, {i \in 1..(ClosingQuote(s) - 1) : s[i] # "\\" \/ Escaped(s, i)})

StringStep ==
    (pc = "lexString" /\ pc' = "lex") =>
        /\ ClosingQuotes(chars) # {}
        /\ tokens' = Append(tokens, Token("STRING", JSString(Decoded(chars))))
        /\ chars' = Drop(chars, ClosingQuote(chars))

StringInProgress ==
    (pc = "lexString" /\ ClosingQuotes(chars) # {}) =>
        /\ length < ClosingQuote(chars)
        /\ c = Drop(chars, length)

EscapedQuoteExample ==
    (input = TextEscapedQuote) =>
        /\ pc # "error"
        /\ (pc = "done") => (result = JSArray(<<JSString(<<"x", "\"", "y">>)>>))

\* C7: for a string that has a closing quote, the token's value is the
\* characters up to the first quotation mark that no backslash escapes, each
\* escaping backslash dropped and the character after it kept as it is; the
\* lexer takes exactly those characters and the closing quote and goes on at
\* the next one.  ["x\"y"] parses to the array holding x"y.
StringUnescaped == [][StringStep]_vars /\ [](StringInProgress /\ EscapedQuoteExample)

StringUnescapedWitness ==
    /\ input = TextEscapedQuote
    /\ pc = "done"
    /\ result = JSArray(<<JSString(<<"x", "\"", "y">>)>>)

\* An iteration of the loop of lexString takes a character or leaves the loop.
LexStringProgress ==
    (pc = "lexString") => (pc' # "lexString" \/ Len(c') < Len(c))

\* C9: the call always reaches a value or an error; the loop of lexString in
\* particular stops when the text ends inside a string: each of its
\* iterations takes at least one character or leaves the loop.
LexStringStops == [][LexStringProgress]_vars

\* The value a key has at its last occurrence among the members ms.
LastValue(ms, k) ==
    ms[CHOOSE i \in DOMAIN ms : ms[i].key = k /\ \A j \in DOMAIN ms : (ms[j].key = k) => (j <= i)].value

AsProperty(m) == [key |-> m.key, value |-> JSString(m.value)]

\* The members at their last occurrence.
LastOccurrences(ms) ==
    LET kept == Pick(ms, {i \in DOMAIN ms : \A j \in DOMAIN ms : (ms[j].key = ms[i].key) => (j <= i)})
    IN  [i \in DOMAIN kept |-> AsProperty(kept[i])]

\* The members at their first occurrence, each with the value of its last.
FirstOccurrences(ms) ==
    LET kept == Pick(ms, {i \in DOMAIN ms : \A j \in DOMAIN ms : (ms[j].key = ms[i].key) => (i <= j)})
    IN  [i \in DOMAIN kept |->
            [key |-> kept[i].key, value |-> JSString(LastValue(ms, kept[i].key))]]

\* C8, as stated: a repeated key raises no error, maps to the value of its
\* last occurrence and stands in the key order where its last occurrence was.
DuplicateKeyMovesLast ==
    Terminal =>
        \A d \in DuplicateDocs :
            (input = d.text) => (pc = "done" /\ result = JSObject(LastOccurrences(d.members)))

\* C8, amended: a repeated key raises no error, maps to the value of its last
\* occurrence and stays in the key order where its first occurrence was.
DuplicateKeyKeepsPlace ==
    Terminal =>
        \A d \in DuplicateDocs :
            (input = d.text) => (pc = "done" /\ result = JSObject(FirstOccurrences(d.members)))

DuplicateKeyKeepsPlaceWitness ==
    /\ input = TextDuplicate
    /\ pc = "done"
    /\ result = JSObject(<<[key |-> <<"a">>, value |-> JSString(<<"3">>)],
                           [key |-> <<"b">>, value |-> JSString(<<"2">>)]>>)

\* parseTokens by the kind of the first token, and the examples of strings that
\* hold one syntax character.
DispatchByKind ==
    (pc = "parseTokens" /\ args # <<>>) =>
        /\ (pc' \in {"parseObject", "parseArray"}) => (args[1].type = "SYNTAX")
        /\ (pc' = "return") => (args[1].type \in {"STRING", "BOOLEAN"})

SyntaxCharacterStrings ==
    /\ (input = TextStringBracket) =>
          (pc # "error" /\ ((pc = "done") => (result = JSArray(<<JSString(<<"[">>)>>))))
    /\ (input = TextStringComma) =>
          (pc # "error" /\ ((pc = "done") => (result = JSArray(<<JSString(<<",">>)>>))))
    /\ (input = TextStringBrace) =>
          (pc # "error" /\ ((pc = "done") =>
              (result = JSObject(<<[key |-> <<"a">>, value |-> JSString(<<"{">>)]>>))))
    /\ (input = TextKeyBrace) =>
          (pc # "error" /\ ((pc = "done") =>
              (result = JSObject(<<[key |-> <<"a">>, value |-> JSString(<<"b">>)],
                                   [key |-> <<"}">>, value |-> JSString(<<"c">>)]>>))))
    /\ (input \in {TextCommaValue, TextColon}) => (pc # "done")

\* C10: the parser goes by the kind of a token, not by its value: only a
\* Syntax token opens a container, only a String or Boolean token becomes a
\* leaf value.  A string holding one syntax character comes back as that
\* string, and a Syntax token in value position is never returned as a value.
StructureByTokenKind == [][DispatchByKind]_vars /\ []SyntaxCharacterStrings


---------------------------------------------------------------------------
(* The token cursor *)

IsSuffix(s, w) ==
    /\ Len(s) <= Len(w)
    /\ s = SubSeq(w, Len(w) - Len(s) + 1, Len(w))

Parsing == pc \in {"parseTokens", "parseObject", "parseArray", "return"}

\* The remaining tokens of the running call: the argument of parseTokens, the
\* tokens a call has just returned, or the t of the running loop.
Cursor ==
    IF pc = "parseTokens" THEN args
    ELSE IF pc = "return" THEN ret[1]
    ELSE Top.t

\* Every remaining-token sequence is a suffix of lex's tokens, and an inner
\* call holds no more tokens than the calls around it.
CursorIsSuffix ==
    Parsing =>
        /\ IsSuffix(Cursor, tokens)
        /\ \A i \in DOMAIN stack :
              /\ IsSuffix(stack[i].t, tokens)
              /\ Len(Cursor) <= Len(stack[i].t)
              /\ \A j \in DOMAIN stack : (i < j) => (Len(stack[j].t) <= Len(stack[i].t))

\* The tokens a step takes from the front of the cursor.
Consumed == SubSeq(Cursor, 1, Len(Cursor) - Len(Cursor'))

EndOf(fn) == IF fn = "parseObject" THEN END_OBJECT ELSE END_ARRAY

\* A step leaves a suffix of the cursor, and what it takes from the front is
\* what it has looked at: parseTokens the one token it dispatches on or returns
\* the value of, parseObject a key and the ':' after it, a loop resumed after a
\* value at most one ',' when it goes round again and then the end token
\* alone when it returns.
CursorStep ==
    (Parsing /\ Parsing') =>
        /\ IsSuffix(Cursor', Cursor)
        /\ (pc = "parseTokens") =>
              /\ Len(Consumed) = 1
              /\ (pc' = "return") => (ret'[2] = Consumed[1].value)
        /\ (pc = "parseObject") =>
              /\ Len(Consumed) = 2
              /\ Consumed[1].type = "STRING"
              /\ ValueIs(Consumed[2], NAME_SEPARATOR)
        /\ (pc = "parseArray") => (Consumed = <<>>)
        /\ (pc = "return" /\ pc' = "return") =>
              /\ Len(Consumed) \in {1, 2}
              /\ ValueIs(Consumed[Len(Consumed)], EndOf(Top.fn))
              /\ (Len(Consumed) = 2) => ValueIs(Consumed[1], VALUE_SEPARATOR)
        /\ (pc = "return" /\ pc' # "return") =>
              \/ Consumed = <<>>
              \/ Len(Consumed) = 1 /\ ValueIs(Consumed[1], VALUE_SEPARATOR)

\* C11: throughout a parse the remaining tokens held by or returned from
\* parseTokens, parseObject and parseArray are a suffix of the tokens lex
\* produced and never grow, and every call returns exactly the tokens after
\* the last one it consumed: no token is taken twice and none is skipped.
TokenCursor == [][CursorStep]_vars /\ []CursorIsSuffix

\* An inner container has returned to the loop around it, with tokens left.
TokenCursorWitness ==
    /\ pc = "return"
    /\ stack # <<>>
    /\ ret[2].kind \in {"Array", "Object"}
    /\ ret[1] # <<>>
    /\ Len(ret[1]) < Len(Top.t)
    /\ IsSuffix(ret[1], tokens)


---------------------------------------------------------------------------
(* Value separators *)

\* Written with all its commas, each of these texts is accepted, with the value
\* its members make.
SeparatedAccepted ==
    \A d \in CommaDocs :
        (Terminal /\ d.gap = 0 /\ input = d.text)
            => (pc = "done" /\ ValueEq(result, d.value))

\* C12: a ',' between two consecutive array elements or object members is
\* optional: with that one token deleted from an accepted token sequence,
\* parseTokens accepts what is left and returns an equal value, with no error
\* for the missing comma.
SeparatorsOptional ==
    \A d \in CommaDocs :
        (Terminal /\ d.gap > 0 /\ input = d.text)
            => (pc = "done" /\ ValueEq(result, d.value))

====
